---- MODULE Spec2Model ----
(***************************************************************************)
(* Model of src/mail.py: the Gmail polling loop of main(), the body        *)
(* decoder get_email_body() and the extractor extract_transaction_info().  *)
(*                                                                         *)
(* Text is a sequence of tokens:                                           *)
(*   "sp"    a whitespace character (removed at the ends by str.strip)     *)
(*   "tag"   an HTML tag (removed by BeautifulSoup.get_text)               *)
(*   "bad"   a byte that is not valid UTF-8 (dropped by errors='ignore')   *)
(*   "txt"   any other text                                                *)
(*   "amt"   the phrase "Rs.<d+>.<dd> is successfully credited"            *)
(*   "ref1", "ref2"  the phrase "reference number is <UTR>", UTR 1 or 2    *)
(***************************************************************************)
EXTENDS Integers, Sequences, FiniteSets, TLC

VARIABLES pc, seen_message_ids, messages, idx, msg_id, payload, body_text,
          txn, new_found, err, intr,
          fetched, marked, emitted, hb, cycEmitted, doneBefore

vars == <<pc, seen_message_ids, messages, idx, msg_id, payload, body_text,
          txn, new_found, err, intr,
          fetched, marked, emitted, hb, cycEmitted, doneBefore>>

\* ------------------------------------------------------------------ bounds
NumIds == 2
MaxResults == 2
MaxParts == 2
MaxText == 2

Ids == 1..NumIds

\* All sequences over S of length 0..n.
SeqUpTo(S, n) == UNION {[1..k -> S] : k \in 0..n}

\* ------------------------------------------------------------- text helpers
IsSpace(t) == t = "sp"

RECURSIVE LStrip(_)
LStrip(s) == IF s # <<>> /\ IsSpace(Head(s)) THEN LStrip(Tail(s)) ELSE s

RECURSIVE RStrip(_)
RStrip(s) ==
  IF s # <<>> /\ IsSpace(s[Len(s)]) THEN RStrip(SubSeq(s, 1, Len(s) - 1)) ELSE s

\* str.strip(): leading and trailing whitespace removed.
Strip(s) == RStrip(LStrip(s))

IsTag(t) == t = "tag"
NotTag(t) == ~IsTag(t)

\* BeautifulSoup(content, "html.parser").get_text(): the tags are removed.
GetText(s) == SelectSeq(s, NotTag)

IsValidByte(t) == t # "bad"

\* bytes.decode(errors='ignore'): undecodable bytes are dropped.
Utf8Ignore(bytes) == SelectSeq(bytes, IsValidByte)

\* ------------------------------------------------------------- payloads
Mime == {"text/plain", "text/html", "other"}

\* part['body'].get('data'): None or the empty string (NoData), or a
\* non-empty base64url string that is well-formed or not (incorrect padding)
\* and encodes the bytes.
NoData == [present |-> FALSE, wellFormed |-> TRUE, bytes |-> <<>>]
MkData(ok, bytes) == [present |-> TRUE, wellFormed |-> ok, bytes |-> bytes]

\* not data: None and the empty string are falsy.
Falsy(data) == ~data.present

MkPart(mime, data) == [mimeType |-> mime, data |-> data]

SinglePart(mime, data) ==
  [hasParts |-> FALSE, parts |-> <<>>, mimeType |-> mime, data |-> data]
MultiPart(parts) ==
  [hasParts |-> TRUE, parts |-> parts, mimeType |-> "other", data |-> NoData]

\* The payloads of the decoder's check: every single-part payload and every
\* list of at most MaxParts parts, over texts of at most MaxText tokens.
Tok == {"sp", "tag", "bad", "amt", "ref1"}
Datas ==
  {NoData, MkData(FALSE, <<>>)} \cup {MkData(TRUE, t) : t \in SeqUpTo(Tok, MaxText)}
Parts == {MkPart(m, d) : m \in Mime, d \in Datas}
Payloads ==
  {SinglePart(m, d) : m \in Mime, d \in Datas}
    \cup {MultiPart(ps) : ps \in SeqUpTo(Parts, MaxParts)}

\* ------------------------------------------------------------- decoder
Raised == [raised |-> TRUE, text |-> <<>>]
Returned(text) == [raised |-> FALSE, text |-> text]

\* One part (or the single-part payload) that has data: base64 decoding
\* raises binascii.Error on malformed data; otherwise text/plain returns the
\* stripped content, text/html the stripped get_text; other types fall through.
RECURSIVE PartsBody(_, _)
PartsBody(parts, i) ==
  IF i > Len(parts) THEN Returned(<<>>)
  ELSE LET part == parts[i]
           content == Utf8Ignore(part.data.bytes)
       IN  IF Falsy(part.data) THEN PartsBody(parts, i + 1)
           ELSE IF ~part.data.wellFormed THEN Raised
           ELSE IF part.mimeType = "text/plain" THEN Returned(Strip(content))
           ELSE IF part.mimeType = "text/html"
                  THEN Returned(Strip(GetText(content)))
           ELSE PartsBody(parts, i + 1)

get_email_body(p) ==
  IF p.hasParts THEN PartsBody(p.parts, 1)
  ELSE LET content == Utf8Ignore(p.data.bytes)
       IN  IF Falsy(p.data) THEN Returned(<<>>)
           ELSE IF ~p.data.wellFormed THEN Raised
           ELSE IF p.mimeType = "text/plain" THEN Returned(Strip(content))
           ELSE IF p.mimeType = "text/html"
                  THEN Returned(Strip(GetText(content)))
           ELSE Returned(<<>>)

\* ------------------------------------------------------------- extractor
IsAmt(t) == t = "amt"
IsRef(t) == t \in {"ref1", "ref2"}
UtrOf(t) == IF t = "ref1" THEN 1 ELSE 2

\* The extractor's result: None, or {"amount": ..., "utr": ...}.
NoTxn == [found |-> FALSE, amount |-> "", utr |-> 0]

\* re.search(..., re.DOTALL): the leftmost amount phrase that is followed
\* somewhere by a reference phrase, and (non-greedy) the first such phrase.
extract_transaction_info(text) ==
  LET amts == {i \in 1..Len(text) : IsAmt(text[i])}
      refs == {j \in 1..Len(text) :
                 IsRef(text[j]) /\ \E i \in amts : i < j}
  IN  IF refs = {} THEN NoTxn
      ELSE LET a == CHOOSE i \in amts : \A k \in amts : i <= k
               r == CHOOSE j \in refs : j > a /\ \A k \in refs : k > a => j <= k
           IN  [found |-> TRUE, amount |-> "d.dd", utr |-> UtrOf(text[r])]

\* ------------------------------------------------------------- provider
\* messages().list(...).execute(): any list of at most MaxResults ids.
ResultLists == SeqUpTo(Ids, MaxResults)

\* An HttpError (or transport error) of the provider call.
ErrKinds == {"transient", "fatal"}

NoErr == [src |-> "none", kind |-> "none"]

\* messages().get(...).execute(): the payloads the mailbox may hold.
Inbox ==
  { SinglePart("text/plain", MkData(TRUE, <<"amt", "txt", "ref1">>)),
    SinglePart("text/plain", MkData(TRUE, <<"sp", "amt", "ref2", "sp">>)),
    MultiPart(<<MkPart("text/plain", NoData),
                MkPart("text/html",
                       MkData(TRUE, <<"tag", "amt", "tag", "ref1">>))>>),
    SinglePart("text/plain", MkData(TRUE, <<"txt">>)),
    SinglePart("text/html", MkData(TRUE, <<"tag", "ref1", "amt">>)),
    MultiPart(<<MkPart("other", NoData)>>),
    SinglePart("text/plain", MkData(FALSE, <<"amt", "ref1">>)) }

NoPayload == SinglePart("other", NoData)

\* ------------------------------------------------------------- main()
Running == pc \notin {"stopped", "crashed"}

InCycleWork == {"fetch", "decode", "extract", "report", "mark"}

Init ==
  /\ pc = "search"
  /\ seen_message_ids = {}
  /\ messages = <<>>
  /\ idx = 0
  /\ msg_id = 0
  /\ payload = NoPayload
  /\ body_text = <<>>
  /\ txn = NoTxn
  /\ new_found = FALSE
  /\ err = NoErr
  /\ intr = "none"
  /\ fetched = [i \in Ids |-> 0]
  /\ marked = [i \in Ids |-> 0]
  /\ emitted = <<>>
  /\ hb = FALSE
  /\ cycEmitted = FALSE
  /\ doneBefore = {}

\* An uncaught exception leaves the while loop and main(): only
\* KeyboardInterrupt is caught.
Crash(src, kind) ==
  /\ pc' = "crashed"
  /\ err' = [src |-> src, kind |-> kind]

\* Lines 90-94 with the reset of new_found left out.
SearchNoReset ==
  /\ pc = "search"
  /\ \E msgs \in ResultLists : messages' = msgs
  /\ idx' = 0
  /\ pc' = "loop"
  /\ hb' = FALSE
  /\ cycEmitted' = FALSE
  /\ doneBefore' = {i \in Ids : marked[i] > 0}
  /\ UNCHANGED <<seen_message_ids, msg_id, payload, body_text, txn, new_found,
                 err, intr, fetched, marked, emitted>>

\* Lines 90-94: the query returns its result list; new_found = False.
Search ==
  /\ pc = "search"
  /\ \E msgs \in ResultLists : messages' = msgs
  /\ new_found' = FALSE
  /\ idx' = 0
  /\ pc' = "loop"
  /\ hb' = FALSE
  /\ cycEmitted' = FALSE
  /\ doneBefore' = {i \in Ids : marked[i] > 0}
  /\ UNCHANGED <<seen_message_ids, msg_id, payload, body_text, txn, err, intr,
                 fetched, marked, emitted>>

\* Line 91: the query raises.
SearchFails ==
  /\ pc = "search"
  /\ \E k \in ErrKinds : Crash("search", k)
  /\ UNCHANGED <<seen_message_ids, messages, idx, msg_id, payload, body_text,
                 txn, new_found, intr, fetched, marked, emitted, hb,
                 cycEmitted, doneBefore>>

has_seen_never(id) == FALSE


\* Line 98 against the set as it was when the cycle began (the set updated
\* only at the end of the cycle).
has_seen_stale(id) == id \in doneBefore

\* Line 98: msg_id in seen_message_ids.
has_seen(id) == id \in seen_message_ids



\* Lines 96-99 iterating over reversed(messages).
NextMessageReversed ==
  /\ pc = "loop"
  /\ IF idx >= Len(messages)
       THEN /\ pc' = "endcycle"
            /\ UNCHANGED <<idx, msg_id>>
       ELSE /\ idx' = idx + 1
            /\ msg_id' = messages[Len(messages) - idx]
            /\ pc' = IF has_seen(messages[Len(messages) - idx])
                       THEN "loop" ELSE "fetch"
  /\ UNCHANGED <<seen_message_ids, messages, payload, body_text, txn,
                 new_found, err, intr, fetched, marked, emitted, hb,
                 cycEmitted, doneBefore>>

\* Lines 96-99 with "break" for "continue": a seen message ends the cycle.
NextMessageBreak ==
  /\ pc = "loop"
  /\ IF idx >= Len(messages)
       THEN /\ pc' = "endcycle"
            /\ UNCHANGED <<idx, msg_id>>
       ELSE /\ idx' = idx + 1
            /\ msg_id' = messages[idx + 1]
            /\ pc' = IF has_seen(messages[idx + 1]) THEN "endcycle" ELSE "fetch"
  /\ UNCHANGED <<seen_message_ids, messages, payload, body_text, txn,
                 new_found, err, intr, fetched, marked, emitted, hb,
                 cycEmitted, doneBefore>>

\* Lines 96-99: the for loop takes the next message, skips a seen one, and
\* falls through to line 112 when the list is exhausted.
NextMessage ==
  /\ pc = "loop"
  /\ IF idx >= Len(messages)
       THEN /\ pc' = "endcycle"
            /\ UNCHANGED <<idx, msg_id>>
       ELSE /\ idx' = idx + 1
            /\ msg_id' = messages[idx + 1]
            /\ pc' = IF has_seen(messages[idx + 1]) THEN "loop" ELSE "fetch"
  /\ UNCHANGED <<seen_message_ids, messages, payload, body_text, txn,
                 new_found, err, intr, fetched, marked, emitted, hb,
                 cycEmitted, doneBefore>>

\* Lines 101-102: the full message is fetched.
Fetch ==
  /\ pc = "fetch"
  /\ \E p \in Inbox : payload' = p
  /\ fetched' = [fetched EXCEPT ![msg_id] = @ + 1]
  /\ pc' = "decode"
  /\ UNCHANGED <<seen_message_ids, messages, idx, msg_id, body_text, txn,
                 new_found, err, intr, marked, emitted, hb, cycEmitted,
                 doneBefore>>


\* Line 101 wrapped in "except Exception: continue": the failure is
\* swallowed and the cycle goes on to the next message.
FetchFailsSwallowed ==
  /\ pc = "fetch"
  /\ \E k \in ErrKinds : err' = [src |-> "fetch", kind |-> k]
  /\ pc' = "loop"
  /\ UNCHANGED <<seen_message_ids, messages, idx, msg_id, payload, body_text,
                 txn, new_found, intr, fetched, marked, emitted, hb,
                 cycEmitted, doneBefore>>

\* Line 101: the fetch raises.
FetchFails ==
  /\ pc = "fetch"
  /\ \E k \in ErrKinds : Crash("fetch", k)
  /\ UNCHANGED <<seen_message_ids, messages, idx, msg_id, payload, body_text,
                 txn, new_found, intr, fetched, marked, emitted, hb,
                 cycEmitted, doneBefore>>

\* Line 103: body_text = get_email_body(payload); binascii.Error propagates.
Decode ==
  /\ pc = "decode"
  /\ LET r == get_email_body(payload)
     IN  IF r.raised
           THEN /\ Crash("decode", "binascii")
                /\ UNCHANGED body_text
           ELSE /\ body_text' = r.text
                /\ pc' = "extract"
                /\ UNCHANGED err
  /\ UNCHANGED <<seen_message_ids, messages, idx, msg_id, payload, txn,
                 new_found, intr, fetched, marked, emitted, hb, cycEmitted,
                 doneBefore>>

\* Line 105: txn = extract_transaction_info(body_text).
Extract ==
  /\ pc = "extract"
  /\ txn' = extract_transaction_info(body_text)
  /\ pc' = "report"
  /\ UNCHANGED <<seen_message_ids, messages, idx, msg_id, payload, body_text,
                 new_found, err, intr, fetched, marked, emitted, hb,
                 cycEmitted, doneBefore>>

\* Lines 106-108: a found transaction is printed and new_found = True.
Report ==
  /\ pc = "report"
  /\ IF txn.found
       THEN /\ emitted' = Append(emitted, [id |-> msg_id, utr |-> txn.utr])
            /\ new_found' = TRUE
            /\ cycEmitted' = TRUE
       ELSE UNCHANGED <<emitted, new_found, cycEmitted>>
  /\ pc' = "mark"
  /\ UNCHANGED <<seen_message_ids, messages, idx, msg_id, payload, body_text,
                 txn, err, intr, fetched, marked, hb, doneBefore>>

\* Line 110 with the insertion lost.
MarkSeenLost ==
  /\ pc = "mark"
  /\ marked' = [marked EXCEPT ![msg_id] = @ + 1]
  /\ pc' = "loop"
  /\ UNCHANGED <<seen_message_ids, messages, idx, msg_id, payload, body_text,
                 txn, new_found, err, intr, fetched, emitted, hb, cycEmitted,
                 doneBefore>>


\* Line 110 with the set replaced instead of extended.
MarkSeenReplaces ==
  /\ pc = "mark"
  /\ seen_message_ids' = {msg_id}
  /\ marked' = [marked EXCEPT ![msg_id] = @ + 1]
  /\ pc' = "loop"
  /\ UNCHANGED <<messages, idx, msg_id, payload, body_text, txn, new_found,
                 err, intr, fetched, emitted, hb, cycEmitted, doneBefore>>


\* Line 110 moved under "if txn:": only a matched message is marked.
MarkSeenIfFound ==
  /\ pc = "mark"
  /\ IF txn.found
       THEN /\ seen_message_ids' = seen_message_ids \cup {msg_id}
            /\ marked' = [marked EXCEPT ![msg_id] = @ + 1]
       ELSE UNCHANGED <<seen_message_ids, marked>>
  /\ pc' = "loop"
  /\ UNCHANGED <<messages, idx, msg_id, payload, body_text, txn, new_found,
                 err, intr, fetched, emitted, hb, cycEmitted, doneBefore>>

\* Line 110: seen_message_ids.add(msg_id).
MarkSeen ==
  /\ pc = "mark"
  /\ seen_message_ids' = seen_message_ids \cup {msg_id}
  /\ marked' = [marked EXCEPT ![msg_id] = @ + 1]
  /\ pc' = "loop"
  /\ UNCHANGED <<messages, idx, msg_id, payload, body_text, txn, new_found,
                 err, intr, fetched, emitted, hb, cycEmitted, doneBefore>>

\* Lines 112-113: the heartbeat dot, if nothing new was found.
EndCycle ==
  /\ pc = "endcycle"
  /\ hb' = ~new_found
  /\ pc' = "sleep"
  /\ UNCHANGED <<seen_message_ids, messages, idx, msg_id, payload, body_text,
                 txn, new_found, err, intr, fetched, marked, emitted,
                 cycEmitted, doneBefore>>

\* Line 115: time.sleep(POLL_INTERVAL) returns.
Sleep ==
  /\ pc = "sleep"
  /\ pc' = "search"
  /\ UNCHANGED <<seen_message_ids, messages, idx, msg_id, payload, body_text,
                 txn, new_found, err, intr, fetched, marked, emitted, hb,
                 cycEmitted, doneBefore>>

\* Lines 117-118: Ctrl+C raises KeyboardInterrupt in the main thread at
\* whatever statement it is executing; the handler prints and main() returns.
KeyboardInterrupt ==
  /\ Running
  /\ intr' = pc
  /\ pc' = "stopped"
  /\ UNCHANGED <<seen_message_ids, messages, idx, msg_id, payload, body_text,
                 txn, new_found, err, fetched, marked, emitted, hb,
                 cycEmitted, doneBefore>>

Next ==
  \/ Search
  \/ SearchFails
  \/ NextMessage
  \/ Fetch
  \/ FetchFails
  \/ Decode
  \/ Extract
  \/ Report
  \/ MarkSeen
  \/ EndCycle
  \/ Sleep
  \/ KeyboardInterrupt

Spec == Init /\ [][Next]_vars


\* ------------------------------------------------------------- fair runs
\* main() when no Ctrl+C arrives and every provider call returns: the
\* interpreter keeps executing the next statement, and time.sleep returns.
NextLive ==
  \/ Search
  \/ NextMessage
  \/ Fetch
  \/ Decode
  \/ Extract
  \/ Report
  \/ MarkSeen
  \/ EndCycle
  \/ Sleep

SpecLive == Init /\ [][NextLive]_vars /\ WF_vars(NextLive)

\* ------------------------------------------------------------- decoder runs
\* main() at line 103 for the first message of the first cycle, with any
\* payload fetched; then the decoder and the extractor run on it.
InitDecoder ==
  /\ pc = "decode"
  /\ seen_message_ids = {}
  /\ messages = <<1>>
  /\ idx = 1
  /\ msg_id = 1
  /\ payload \in Payloads
  /\ body_text = <<>>
  /\ txn = NoTxn
  /\ new_found = FALSE
  /\ err = NoErr
  /\ intr = "none"
  /\ fetched = [i \in Ids |-> IF i = 1 THEN 1 ELSE 0]
  /\ marked = [i \in Ids |-> 0]
  /\ emitted = <<>>
  /\ hb = FALSE
  /\ cycEmitted = FALSE
  /\ doneBefore = {}

NextDecoder ==
  \/ Decode
  \/ Extract

SpecDecoder == InitDecoder /\ [][NextDecoder]_vars

\* ------------------------------------------------------------- properties
\* The message whose processing (lines 101-110) is under way.
InFlight(i) == pc \in {"decode", "extract", "report", "mark"} /\ msg_id = i

\* The candidates after the current one in this cycle's result list.
Later == {messages[j] : j \in (idx + 1)..Len(messages)}

\* C1: a message id that was processed and marked seen in an earlier cycle
\* and is returned again is never fetched, decoded, extracted or emitted in
\* the later cycle: no processing step of a cycle works on an id that was
\* marked before the cycle began, and such an id stays fetched once, marked
\* once and emitted at most once.
ThmC1_Idempotence ==
  /\ pc \in InCycleWork => msg_id \notin doneBefore
  /\ \A i \in doneBefore :
       /\ fetched[i] = 1
       /\ marked[i] = 1
       /\ Cardinality({k \in 1..Len(emitted) : emitted[k].id = i}) <= 1

\* C1 witness: a later cycle has just skipped an id processed in an earlier
\* cycle, which was fetched once.
WitC1_SkippedAgain ==
  /\ pc = "loop"
  /\ idx >= 1
  /\ messages[idx] \in doneBefore
  /\ fetched[messages[idx]] = 1

\* C2: every fetched message id is marked seen exactly once in the process
\* lifetime: never twice, and never zero times once its processing is no
\* longer under way.
ClaimC2_MarkedExactlyOnce ==
  \A i \in Ids :
    /\ marked[i] <= 1
    /\ (fetched[i] > 0 /\ ~InFlight(i)) => marked[i] = 1

\* C3: a message whose body cannot be decoded does not keep a later unseen
\* candidate of the same result list from being processed in that cycle.
ClaimC3_CycleIsolation ==
  ~(/\ pc = "crashed"
    /\ err.src = "decode"
    /\ \E m \in Later : m \notin seen_message_ids /\ fetched[m] = 0)

\* C4: after a transient provider error the scheduler is still running.
ClaimC4_TransientRetried == err.kind = "transient" => Running

\* C5: the loop ends only after a KeyboardInterrupt.
ClaimC5_OnlyCancellationStops == ~Running => intr # "none"

\* C6: cancellation takes effect only outside the processing of a message,
\* and never leaves a message fetched but not marked seen.
ClaimC6_CooperativeCancellation ==
  pc = "stopped" =>
    /\ intr \notin InCycleWork
    /\ \A i \in Ids : fetched[i] = marked[i]

\* The decoded content of a part, as the decoder yields it when it does not
\* fail.
Content(part) ==
  IF part.data.wellFormed THEN Utf8Ignore(part.data.bytes) ELSE <<>>

HasData(parts, mime) ==
  {i \in 1..Len(parts) : parts[i].mimeType = mime /\ ~Falsy(parts[i].data)}

First(S) == CHOOSE i \in S : \A k \in S : i <= k

\* The selection C7 states: the first text/plain part with data, else the
\* first text/html part with data (tags stripped), else the empty string.
PlainPreferred(parts) ==
  IF HasData(parts, "text/plain") # {}
    THEN Strip(Content(parts[First(HasData(parts, "text/plain"))]))
  ELSE IF HasData(parts, "text/html") # {}
    THEN Strip(GetText(Content(parts[First(HasData(parts, "text/html"))])))
  ELSE <<>>

\* C7: for a multi-part payload get_email_body returns the content of the
\* first text/plain part with data, whatever the order of the parts, and
\* falls back to the first text/html part only when there is none.
ClaimC7_PlainPreferred ==
  (pc = "extract" /\ payload.hasParts) =>
    body_text = PlainPreferred(payload.parts)

\* C8: get_email_body never raises to the poll cycle, so a decode error
\* never ends the loop.
ClaimC8_DecoderNeverRaises == ~(pc = "crashed" /\ err.src = "decode")

\* C9 as stated: no reference number (UTR) is emitted twice.
ClaimC9_NoUtrTwice ==
  \A i, j \in 1..Len(emitted) : i # j => emitted[i].utr # emitted[j].utr

\* C9, amended: no message id has its transaction emitted twice.
ThmC9_NoMessageTwice ==
  \A i, j \in 1..Len(emitted) : i # j => emitted[i].id # emitted[j].id

\* C9 witness: a message whose transaction was emitted in an earlier cycle
\* is returned again and has been passed over.
WitC9_EmittedReturnedAgain ==
  /\ pc = "loop"
  /\ idx >= 1
  /\ messages[idx] \in doneBefore
  /\ \E k \in 1..Len(emitted) : emitted[k].id = messages[idx]

\* C10: a completed cycle emits the heartbeat exactly if it emitted no
\* transaction, whatever earlier cycles emitted, and no cycle emits both.
ThmC10_HeartbeatIffIdle ==
  /\ pc = "sleep" => (hb <=> ~cycEmitted)
  /\ ~(hb /\ cycEmitted)

\* C10 witness: an idle cycle has emitted its heartbeat after an earlier
\* cycle emitted a transaction.
WitC10_HeartbeatAfterEmission ==
  /\ pc = "sleep"
  /\ hb
  /\ ~cycEmitted
  /\ emitted # <<>>

\* C11: the seen set only grows, and it changes only in the mark-seen step
\* (line 110), which adds the id of the message being processed; every other
\* step leaves it unchanged.
ThmC11_SeenSetMonotone ==
  [][/\ seen_message_ids \subseteq seen_message_ids'
     /\ seen_message_ids' # seen_message_ids =>
          /\ pc = "mark"
          /\ pc' = "loop"
          /\ seen_message_ids' = seen_message_ids \cup {msg_id}]_vars

\* C11 witness: a second id has been marked while the first is still in the
\* set, in a later cycle.
WitC11_SetGrewTwice ==
  /\ pc = "loop"
  /\ Cardinality(seen_message_ids) >= 2
  /\ doneBefore # {}
  /\ doneBefore # seen_message_ids

\* C12: when a poll cycle has run to completion (the for loop is exhausted:
\* lines 112-115), every message id of that cycle's result list is in the
\* seen set, whether its extraction gave a record or no match.
ThmC12_AllListedSeen ==
  pc \in {"endcycle", "sleep"} =>
    \A j \in 1..Len(messages) : messages[j] \in seen_message_ids

\* C12 witness: a first cycle over two messages has completed; one gave a
\* record, the other no match, and both are marked.
WitC12_MatchedAndUnmatchedSeen ==
  /\ pc = "sleep"
  /\ doneBefore = {}
  /\ Len(messages) = 2
  /\ messages[1] # messages[2]
  /\ Len(emitted) = 1
  /\ \A j \in 1..2 : fetched[messages[j]] = 1 /\ marked[messages[j]] = 1

\* C13: a provider failure (search or fetch) aborts the cycle: the loop is
\* left at once, the failing step and everything after it emit no heartbeat
\* and no transaction and leave the seen set alone; after a failed fetch the
\* cycle has emitted no heartbeat and the message is not in the seen set.
ThmC13_ProviderFailureSurfaced ==
  /\ [](err.src \in {"search", "fetch"} =>
          /\ pc = "crashed"
          /\ err.src = "fetch" =>
               (~hb /\ msg_id \notin seen_message_ids /\ marked[msg_id] = 0))
  /\ [][/\ pc # "crashed"
        /\ pc' = "crashed" =>
             UNCHANGED <<hb, seen_message_ids, marked, emitted>>]_vars

\* C13 witness: a fetch has failed in a later cycle, after another message
\* was marked seen; the failed message is not in the seen set.
WitC13_FetchFailedUnmarked ==
  /\ pc = "crashed"
  /\ err.src = "fetch"
  /\ doneBefore # {}
  /\ msg_id \notin seen_message_ids
  /\ ~hb

\* The program state a cycle works on: the seen set, the result list and
\* the position in it, the message in hand, and what was fetched, marked
\* and emitted.
cycleState ==
  <<seen_message_ids, messages, idx, msg_id, payload, body_text, txn,
    new_found, fetched, marked, emitted>>

\* C14: cycles are strictly sequential. The for loop is left (line 112) only
\* when every candidate of the result list has been taken and is skipped or
\* fully processed; the wait (line 115) begins only there; the next search is
\* reached only by the end of that one wait; a new result list replaces the
\* old one only at the search; and nothing is processed during the wait.
ThmC14_SequentialCycles ==
  [][/\ pc' = "endcycle" =>
          /\ pc = "loop"
          /\ idx = Len(messages)
          /\ \A j \in 1..Len(messages) : messages[j] \in seen_message_ids
     /\ pc' = "sleep" => pc = "endcycle"
     /\ pc' = "search" => pc = "sleep"
     /\ messages' # messages => (pc = "search" /\ pc' = "loop" /\ idx' = 0)
     /\ pc = "sleep" => UNCHANGED cycleState]_vars

\* C14 witness: a second search has been issued, after a cycle that
\* processed two messages and after its wait.
WitC14_SecondSearchIssued ==
  /\ pc = "loop"
  /\ idx = 0
  /\ Cardinality(doneBefore) = 2
  /\ messages # <<>>

\* The first position of id i in the current result list.
FirstPos(i) ==
  CHOOSE j \in 1..Len(messages) :
    messages[j] = i /\ \A k \in 1..(j - 1) : messages[k] # i

\* The emissions of the current cycle: those of ids not marked before it.
CycleEmissions == {k \in 1..Len(emitted) : emitted[k].id \notin doneBefore}

\* C15: a cycle takes its candidates in provider order. While a message is
\* processed it is the one at the current position, every candidate before
\* it is already marked seen, and no unseen candidate that comes only after
\* it has been fetched; the emissions of a cycle are in provider order.
ThmC15_ProviderOrder ==
  /\ pc \in InCycleWork =>
       /\ msg_id = messages[idx]
       /\ \A j \in 1..(idx - 1) : messages[j] \in seen_message_ids
       /\ \A j \in (idx + 1)..Len(messages) :
            (/\ messages[j] \notin doneBefore
             /\ \A k \in 1..idx : messages[k] # messages[j])
              => fetched[messages[j]] = 0
  /\ \A k1, k2 \in CycleEmissions :
       k1 < k2 => FirstPos(emitted[k1].id) < FirstPos(emitted[k2].id)

\* C15 witness: a cycle over the list <<2, 1>> has emitted a transaction for
\* each message, message 2 first.
WitC15_TwoEmittedInListOrder ==
  /\ pc = "sleep"
  /\ doneBefore = {}
  /\ messages = <<2, 1>>
  /\ Len(emitted) = 2
  /\ emitted[1].id = 2
  /\ emitted[2].id = 1

\* A search has just been issued: the for loop is about to start on a new
\* result list.
SearchIssued == pc = "loop" /\ idx = 0

\* The part of C16 about completed cycles: a completed cycle (the wait of
\* line 115 is reached) is eventually followed by another search.
CompletedCycleFollowedBySearch == (pc = "sleep") ~> SearchIssued

\* C16: with no cancellation signal and every provider call returning, the
\* loop never stops, and every completed cycle is eventually followed by
\* another provider search.
ClaimC16_UnboundedPolling ==
  /\ []Running
  /\ CompletedCycleFollowedBySearch

\* The ids at the positions of the current result list already taken,
\* before the current one.
Earlier == {messages[j] : j \in 1..(idx - 1)}

\* C17: an id listed more than once in one result list is processed once.
\* No processing step works on an id that occurs earlier in the same list,
\* and no id is ever fetched or marked twice.
ThmC17_DuplicatesOnce ==
  /\ pc \in InCycleWork => msg_id \notin Earlier
  /\ \A i \in Ids : fetched[i] <= 1 /\ marked[i] <= 1

\* C17 witness: the list holds the same unseen id twice; the first
\* occurrence was fetched and marked in this cycle and the second has just
\* been skipped.
WitC17_SecondOccurrenceSkipped ==
  /\ pc = "loop"
  /\ idx = 2
  /\ messages[1] = messages[2]
  /\ messages[1] \notin doneBefore
  /\ fetched[messages[1]] = 1
  /\ marked[messages[1]] = 1

\* The ids for which a transaction has been printed.
EmittedIds == {emitted[k].id : k \in 1..Len(emitted)}

\* The single message in hand between its print (line 107) and its add
\* (line 110), also when Ctrl+C ended the loop at that point.
InHand(i) ==
  /\ msg_id = i
  /\ pc = "mark" \/ (pc = "stopped" /\ intr = "mark")

====
